---- MODULE Spec2Model ----
(***************************************************************************)
(* State-machine model of the in-process retrieval and resource-control    *)
(* layer of the multimodal video analysis backend:                         *)
(*   - RateLimiter            (src/backend/rate_limiting.py)               *)
(*   - EmbeddingCache, get_cached_embedding, process_video                 *)
(*                            (src/backend/main.py)                        *)
(*   - associate_video_with_user (src/backend/access_control.py)           *)
(* Time is counted in whole seconds.  Every handler is one atomic action:  *)
(* the handlers are `async def` bodies without an await, so the event loop *)
(* runs each of them to completion before the next one starts.             *)
(* SpecRace and SpecThreads are the exception: there check_rate_limit is   *)
(* called from several threads and its statements are separate steps.      *)
(***************************************************************************)
EXTENDS Integers, Sequences, FiniteSets, TLC

VARIABLES
    \* ---- RateLimiter (rate_limiting.py) ----
    requests_per_minute,   \* self.requests_per_minute
    requests_per_hour,     \* self.requests_per_hour
    minute_requests,       \* self.minute_requests : defaultdict(list)
    hour_requests,         \* self.hour_requests   : defaultdict(list)
    now,                   \* the reading of datetime.utcnow(), in seconds
    rl_result,             \* outcome of the last check_rate_limit call
    admitted,              \* history: every timestamp ever recorded, per client
    rl_seen,               \* history: the outcomes check_rate_limit has produced
    \* ---- EmbeddingCache (main.py) ----
    cache,                 \* self.cache : OrderedDict, oldest entry first
    maxsize,               \* self.maxsize
    hits,                  \* self.hits
    misses,                \* self.misses
    cache_ret,             \* the call made last on the cache and what it returned
    recency,               \* history: keys in the order of their last touch
    replaced,              \* history: a set has replaced the value of a held key
    gets,                  \* history: get calls since construction or clear
    provider_calls,        \* history: calls of genai.embed_content for a query
    served,                \* history: vector get_cached_embedding returned last, per key
    \* ---- process_video (main.py) ----
    video_store,           \* video_store : dict, video_id -> video_data
    user_videos,           \* user_videos : dict, user_id -> list of video_id
    log_level,             \* log_level = os.getenv("LOG_LEVEL", "INFO")
    pv_call,               \* history: the last process_video run, its inputs
    pv_trace,              \* history: what the validators of the last run met
    pv_response,           \* what the last process_video run sent to its caller
    \* ---- create_chunks (main.py) ----
    chunk_call,            \* the arguments of the last create_chunks call
    chunk_ret,             \* what the last create_chunks call returned
    \* ---- chat_with_video, visual_search (main.py) ----
    rank_call,             \* history: the last ranking request and its query vector
    rank_response,         \* what the last ranking request sent to its caller
    \* ---- callers of the limiter and of the administrative surface ----
    rl_callers,            \* per thread: its position in check_rate_limit and its locals
    rl_entered,            \* history: check_rate_limit calls begun by the threads
    rl_stats               \* what the last get_stats call returned

limiter_vars == <<requests_per_minute, requests_per_hour, minute_requests,
                  hour_requests, now, rl_result, admitted, rl_seen>>

cache_vars == <<cache, maxsize, hits, misses, cache_ret, recency, replaced,
                gets, provider_calls, served>>

store_vars == <<video_store, user_videos, log_level, pv_call, pv_trace,
                pv_response>>

chunk_vars == <<chunk_call, chunk_ret>>

rank_vars == <<rank_call, rank_response>>

aux_vars == <<rl_callers, rl_entered, rl_stats>>

vars == <<limiter_vars, cache_vars, store_vars, chunk_vars, rank_vars, aux_vars>>

----------------------------------------------------------------------------
\* Bounds and input sets of the rate limiter model

Clients == {"10.0.0.1", "10.0.0.2"}

\* timedelta(minutes=1) and timedelta(hours=1), in seconds
MinuteWindow == 60
HourWindow == 3600

\* Clock readings of the small-limit model: around both window boundaries
Instants == {0, 59, 60, 3599, 3600}

\* Clock readings of the deployed-limit model: around the minute boundary
DeployedInstants == {0, 59, 60, 61}

\* Limits of the limiter explored exhaustively: RateLimiter(2, 3)
SmallPerMinute == 2
SmallPerHour == 3

\* Limits of the module-level instance: RateLimiter(20, 200)
DeployedPerMinute == 20
DeployedPerHour == 200

----------------------------------------------------------------------------
\* Python helpers

\* d[k] on a defaultdict(list): a missing key reads as the empty list
DictGet(d, k) == IF k \in DOMAIN d THEN d[k] ELSE <<>>

\* d[k] = v
DictPut(d, k, v) == [x \in (DOMAIN d) \cup {k} |-> IF x = k THEN v ELSE d[x]]

\* len([x for x in s if x > cutoff])
CountNewer(s, cutoff) == Cardinality({i \in 1..Len(s) : s[i] > cutoff})

----------------------------------------------------------------------------
\* RateLimiter

\* a pruning that also drops the youngest second of the window
clean_drops_recent(requests_list, cutoff_time) ==
    SelectSeq(requests_list, LAMBDA req_time : req_time > cutoff_time + 1)

\* a pruning that keeps the request made exactly at the cutoff
clean_keeps_cutoff(requests_list, cutoff_time) ==
    SelectSeq(requests_list, LAMBDA req_time : req_time >= cutoff_time)

\* RateLimiter._clean_old_requests
clean_old_requests(requests_list, cutoff_time) ==
    SelectSeq(requests_list, LAMBDA req_time : req_time > cutoff_time)

\* a limit test that is off by one: rejects only above the limit
limit_exceeded(window, limit) == Len(window) > limit

\* the test `len(window) >= limit` of check_rate_limit
limit_reached(window, limit) == Len(window) >= limit

\* a recording that also takes place when the call is rejected
recorded_also_when_rejected(window, ok, t) == Append(window, t)

\* lines 56-57 are reached only when neither limit test has raised
recorded(window, ok, t) == IF ok THEN Append(window, t) ELSE window

\* RateLimiter.check_rate_limit(client_ip), run to completion
check_rate_limit(client_ip) ==
    LET minute_ago == now - MinuteWindow
        hour_ago == now - HourWindow
        m1 == clean_old_requests(DictGet(minute_requests, client_ip), minute_ago)
        h1 == clean_old_requests(DictGet(hour_requests, client_ip), hour_ago)
        outcome ==
            IF limit_reached(m1, requests_per_minute)
            THEN [status |-> 429, scope |-> "minute", limit |-> requests_per_minute]
            ELSE IF limit_reached(h1, requests_per_hour)
            THEN [status |-> 429, scope |-> "hour", limit |-> requests_per_hour]
            ELSE [status |-> 200, scope |-> "none", limit |-> 0]
        ok == outcome.status = 200
    IN  /\ minute_requests' =
              DictPut(minute_requests, client_ip, recorded(m1, ok, now))
        /\ hour_requests' =
              DictPut(hour_requests, client_ip, recorded(h1, ok, now))
        /\ rl_result' = [client |-> client_ip, at |-> now] @@ outcome
        /\ admitted' =
              DictPut(admitted, client_ip,
                      IF ok THEN Append(DictGet(admitted, client_ip), now)
                            ELSE DictGet(admitted, client_ip))
        /\ rl_seen' = rl_seen \cup {outcome.scope}
        /\ UNCHANGED <<requests_per_minute, requests_per_hour, now>>
        /\ UNCHANGED <<cache_vars, store_vars, chunk_vars, rank_vars, aux_vars>>

\* the clock moves on to a later reading
Tick(t) ==
    /\ t > now
    /\ now' = t
    /\ UNCHANGED <<requests_per_minute, requests_per_hour, minute_requests,
                   hour_requests, rl_result, admitted, rl_seen>>
    /\ UNCHANGED <<cache_vars, store_vars, chunk_vars, rank_vars, aux_vars>>

\* RateLimiter.__init__(requests_per_minute, requests_per_hour)
RateLimiterInit(per_minute, per_hour) ==
    /\ requests_per_minute = per_minute
    /\ requests_per_hour = per_hour
    /\ minute_requests = <<>>
    /\ hour_requests = <<>>
    /\ now = 0
    /\ rl_result = [client |-> "", at |-> 0, status |-> 0, scope |-> "", limit |-> 0]
    /\ admitted = <<>>
    /\ rl_seen = {}

----------------------------------------------------------------------------
\* EmbeddingCache

\* Bounds and input sets of the cache model
MaxSize == 2
MaxGets == 2
Contents == {"x", "y"}
TaskTypes == {"retrieval_query", "retrieval_document"}
Embeddings == {<<1, 0>>, <<0, 1>>}

\* Optional[...]: None, or a value
None == [some |-> FALSE, v |-> <<>>]
Some(v) == [some |-> TRUE, v |-> v]

\* a key derivation that leaves the task type out
hash_content_only(content, task_type) == <<"sha256", content>>

\* EmbeddingCache._hash_content: sha256 of f"{task_type}:{content}"; the digest
\* is collision free, so it is kept as the tagged string it was computed from
hash_content(content, task_type) == <<"sha256", task_type \o ":" \o content>>

\* `key in self.cache`
has_key(od, key) == \E i \in 1..Len(od) : od[i].key = key

\* self.cache[key] when the key is there
value_of(od, key) == (CHOOSE i \in 1..Len(od) : od[i].key = key)

\* what a get of the key returns: the stored value, or None
lookup(od, key) == IF has_key(od, key) THEN Some(od[value_of(od, key)].value) ELSE None

\* a move_to_end that leaves the order alone
move_to_end_noop(od, key) == od

\* OrderedDict.move_to_end(key)
move_to_end(od, key) ==
    SelectSeq(od, LAMBDA e : e.key # key) \o SelectSeq(od, LAMBDA e : e.key = key)

\* OrderedDict.popitem(last=False) on a non-empty dict: drop the oldest entry
popitem_first(od) == Tail(od)

\* self.cache[key] = embedding: in place for a held key, at the end for a new one
setitem(od, key, embedding) ==
    IF has_key(od, key)
    THEN [i \in 1..Len(od) |->
            IF od[i].key = key THEN [key |-> key, value |-> embedding] ELSE od[i]]
    ELSE Append(od, [key |-> key, value |-> embedding])

\* a capacity test that is off by one
over_capacity(od, size) == Len(od) > size

\* `len(self.cache) >= self.maxsize`
at_capacity(od, size) == Len(od) >= size

\* counters that do not count a miss
counters_hits_only(found) ==
    [hits |-> IF found THEN hits + 1 ELSE hits, misses |-> misses]

\* `self.hits += 1` on a hit, `self.misses += 1` otherwise
counters_after_get(found) ==
    [hits |-> IF found THEN hits + 1 ELSE hits,
     misses |-> IF found THEN misses ELSE misses + 1]

\* history: key becomes the most recently touched one
touch(order, key) == SelectSeq(order, LAMBDA k : k # key) \o <<key>>

\* the state of the cache after EmbeddingCache.set: what the dict becomes, or
\* the KeyError of popitem on an empty dict
after_set(od, key, embedding) ==
    IF at_capacity(od, maxsize)
    THEN IF Len(od) = 0
         THEN [raised |-> "KeyError", od |-> od]
         ELSE [raised |-> "none", od |-> setitem(popitem_first(od), key, embedding)]
    ELSE [raised |-> "none", od |-> setitem(od, key, embedding)]

Call(op, content, task_type, raised, value) ==
    [op |-> op, content |-> content, task_type |-> task_type,
     raised |-> raised, value |-> value]

\* EmbeddingCache.get(content, task_type)
get(content, task_type) ==
    LET key == hash_content(content, task_type)
        found == has_key(cache, key)
        counted == counters_after_get(found)
    IN  /\ hits + misses < MaxGets
        /\ hits' = counted.hits
        /\ misses' = counted.misses
        /\ cache' = IF found THEN move_to_end(cache, key) ELSE cache
        /\ cache_ret' = Call("get", content, task_type, "none", lookup(cache, key))
        /\ recency' = IF found THEN touch(recency, key) ELSE recency
        /\ gets' = gets + 1
        /\ UNCHANGED <<maxsize, replaced, provider_calls, served>>
        /\ UNCHANGED <<limiter_vars, store_vars, chunk_vars, rank_vars, aux_vars>>

\* EmbeddingCache.set(content, task_type, embedding)
set(content, task_type, embedding) ==
    LET key == hash_content(content, task_type)
        res == after_set(cache, key, embedding)
    IN  /\ cache' = res.od
        /\ cache_ret' = Call("set", content, task_type, res.raised, Some(embedding))
        /\ recency' = IF res.raised = "none" /\ ~has_key(cache, key)
                      THEN touch(recency, key) ELSE recency
        /\ replaced' = (replaced \/ (res.raised = "none" /\ has_key(cache, key)))
        /\ UNCHANGED <<maxsize, hits, misses, gets, provider_calls, served>>
        /\ UNCHANGED <<limiter_vars, store_vars, chunk_vars, rank_vars, aux_vars>>

\* EmbeddingCache.stats(): size, maxsize, hits, misses (the hit rate is
\* derived from hits and misses)
stats ==
    /\ cache_ret' = Call("stats", "", "", "none",
                         Some([size |-> Len(cache), maxsize |-> maxsize,
                               hits |-> hits, misses |-> misses]))
    /\ UNCHANGED <<cache, maxsize, hits, misses, recency, replaced, gets,
                   provider_calls, served>>
    /\ UNCHANGED <<limiter_vars, store_vars, chunk_vars, rank_vars, aux_vars>>

\* EmbeddingCache.clear()
clear ==
    /\ cache' = <<>>
    /\ hits' = 0
    /\ misses' = 0
    /\ cache_ret' = Call("clear", "", "", "none", None)
    /\ recency' = <<>>
    /\ replaced' = FALSE
    /\ gets' = 0
    /\ UNCHANGED <<maxsize, provider_calls, served>>
    /\ UNCHANGED <<limiter_vars, store_vars, chunk_vars, rank_vars, aux_vars>>

\* EmbeddingCache.__init__(maxsize)
EmbeddingCacheInit(size) ==
    /\ cache = <<>>
    /\ maxsize = size
    /\ hits = 0
    /\ misses = 0
    /\ cache_ret = Call("init", "", "", "none", None)
    /\ recency = <<>>
    /\ replaced = FALSE
    /\ gets = 0
    /\ provider_calls = 0
    /\ served = <<>>

\* ---- get_cached_embedding ----

MaxProviderCalls == 3

\* what genai.embed_content does for one query: it returns an embedding, or raises
ProviderAnswers ==
    {[ok |-> TRUE, v |-> e] : e \in Embeddings} \cup {[ok |-> FALSE, v |-> <<>>]}

\* a hit test that never finds the cached value
is_cached_never(cached) == FALSE

\* `cached is not None`
is_cached(cached) == cached.some

\* get_cached_embedding(content, task_type) on the module-level cache; answer
\* is what the provider does if it is called
cached_embedding_call(content, task_type, answer) ==
    LET key == hash_content(content, task_type)
        found == has_key(cache, key)
        counted == counters_after_get(found)
        cached == lookup(cache, key)
        od1 == IF found THEN move_to_end(cache, key) ELSE cache
        res == after_set(od1, key, answer.v)
    IN  /\ hits + misses < MaxGets
        /\ hits' = counted.hits
        /\ misses' = counted.misses
        /\ gets' = gets + 1
        /\ IF is_cached(cached)
           THEN /\ cache' = od1
                /\ recency' = IF found THEN touch(recency, key) ELSE recency
                /\ cache_ret' = Call("get_cached_embedding", content, task_type,
                                     "none", cached)
                /\ served' = DictPut(served, key, cached.v)
                /\ UNCHANGED <<provider_calls, replaced>>
           ELSE /\ provider_calls < MaxProviderCalls
                /\ provider_calls' = provider_calls + 1
                /\ IF ~answer.ok
                   THEN /\ cache' = od1
                        /\ recency' = IF found THEN touch(recency, key) ELSE recency
                        /\ cache_ret' = Call("get_cached_embedding", content,
                                             task_type, "ProviderError", None)
                        /\ UNCHANGED <<served, replaced>>
                   ELSE /\ cache' = res.od
                        /\ recency' = IF res.raised = "none" /\ ~has_key(od1, key)
                                      THEN touch(recency, key) ELSE recency
                        /\ replaced' =
                              (replaced \/ (res.raised = "none" /\ has_key(od1, key)))
                        /\ cache_ret' =
                              Call("get_cached_embedding", content, task_type, res.raised,
                                   IF res.raised = "none" THEN Some(answer.v) ELSE None)
                        /\ served' = IF res.raised = "none"
                                     THEN DictPut(served, key, answer.v) ELSE served
        /\ UNCHANGED maxsize

\* a call of get_cached_embedding on its own
get_cached_embedding(content, task_type, answer) ==
    /\ cached_embedding_call(content, task_type, answer)
    /\ UNCHANGED <<limiter_vars, store_vars, chunk_vars, rank_vars, aux_vars>>

----------------------------------------------------------------------------
\* process_video: validation of the batch embeddings and publication of the
\* video (main.py).  The action is the body of the handler function; FastAPI
\* resolves its dependency check_rate_limit before the body runs, and a
\* rejected request never enters it.

Users == {"user_a", "user_b"}
VideoIds == {"vidA"}
LogLevels == {"INFO", "DEBUG"}

\* How the steps before the embedding call end: normally, with the ValueError
\* of extract_video_id, or with an exception of the download or of the model
Upstreams == {"none", "ValueError", "Exception"}

\* Largest number of chunks, and of extracted frames, of one processing run
MaxChunks == 2
MaxFrames == 1

\* The value lists an embedding object can hold: no numbers, or some
Vectors == {<<>>, <<1, 0>>}

\* An embedding object {'values': [...]}
EmbeddingDicts == {[kind |-> "dict", values |-> v] : v \in Vectors}

SeqsUpTo(S, n) == UNION {[1..k -> S] : k \in 0..n}

\* result['embedding'] of a batch call: one embedding object, or a list of them
EmbedResults(longest) ==
    EmbeddingDicts \cup
        {[kind |-> "list", items |-> s] : s \in SeqsUpTo(EmbeddingDicts, longest)}

\* the result used where the code never reads one
NoResult == [kind |-> "list", items |-> <<>>]

\* (a single embedding object taken as no vector at all)
as_list_without_dict(embeddings) ==
    IF embeddings.kind = "dict" THEN <<>> ELSE embeddings.items

\* if isinstance(embeddings, dict): embeddings = [embeddings]
as_list(embeddings) ==
    IF embeddings.kind = "dict" THEN <<embeddings>> ELSE embeddings.items

\* embedding_to_array of an embedding object: the array of its 'values'
embedding_to_array(embedding) == embedding.values

\* (the emptiness test left out)
is_empty_never(emb_array) == FALSE

\* emb_array.size == 0
is_empty_array(emb_array) == Len(emb_array) = 0

\* A formatted message: its wording and the numbers interpolated into it
Text(wording, expected, received, index) ==
    [wording |-> wording, expected |-> expected, received |-> received,
     index |-> index]

NoText == Text("", -1, -1, -1)

\* A raised exception; status_code is that of an HTTPException, 0 otherwise
Raise(kind, status_code, text) ==
    [kind |-> kind, status_code |-> status_code, text |-> text]

NoException == Raise("none", 0, NoText)

\* position (from 1) of the first embedding with an empty array, 0 if none
first_empty(embeddings, count) ==
    LET empty == {i \in 1..count : is_empty_array(embedding_to_array(embeddings[i]))}
    IN  IF empty = {} THEN 0 ELSE CHOOSE i \in empty : \A j \in empty : i <= j

\* process_video, count validation and the loop that stores the embeddings
\* with the chunks; building the mismatch message reads chunk_texts[0]
attach_chunk_embeddings(chunks_count, embeddings) ==
    LET embeddings_count == Len(embeddings)
        bad == first_empty(embeddings, chunks_count)
    IN  IF embeddings_count # chunks_count
        THEN [exc |-> IF chunks_count = 0
                      THEN Raise("IndexError", 0,
                                 Text("list index out of range", -1, -1, -1))
                      ELSE Raise("HTTPException", 500,
                                 Text("Embedding count mismatch", chunks_count,
                                      embeddings_count, -1)),
              chunks |-> <<>>]
        ELSE IF bad > 0
        THEN [exc |-> Raise("ValueError", 0,
                            Text("Empty embedding returned for chunk", -1, -1,
                                 bad - 1)),
              chunks |-> <<>>]
        ELSE [exc |-> NoException,
              chunks |-> [i \in 1..chunks_count |->
                            [text |-> i,
                             embedding |-> embedding_to_array(embeddings[i])]]]

\* build_visual_index(frames); described is FALSE when extract_frames or a
\* generate_content call raises
build_visual_index(frames_count, described, embed_result) ==
    LET embeddings == as_list(embed_result)
        embeddings_count == Len(embeddings)
        bad == first_empty(embeddings, frames_count)
    IN  IF frames_count = 0
        THEN [exc |-> NoException, visual_index |-> <<>>]
        ELSE IF ~described
        THEN [exc |-> Raise("Exception", 0, Text("frame description failed", -1, -1, -1)),
              visual_index |-> <<>>]
        ELSE IF embeddings_count # frames_count
        THEN [exc |-> Raise("ValueError", 0,
                            Text("Visual embedding count mismatch", frames_count,
                                 embeddings_count, -1)),
              visual_index |-> <<>>]
        ELSE IF bad > 0
        THEN [exc |-> Raise("ValueError", 0,
                            Text("Empty embedding for frame", -1, -1, bad - 1)),
              visual_index |-> <<>>]
        ELSE [exc |-> NoException,
              visual_index |-> [i \in 1..frames_count |->
                                  [timestamp |-> i,
                                   embedding |-> embedding_to_array(embeddings[i])]]]

\* process_video, "Build visual index from video frames": any exception of
\* the frame pipeline is swallowed and leaves an empty index
visual_index_of(file_exists, frames_count, described, embed_result) ==
    LET built == build_visual_index(frames_count, described, embed_result)
    IN  IF file_exists /\ built.exc.kind = "none" THEN built.visual_index ELSE <<>>

\* associate_video_with_user(video_data, current_user, user_videos)
associate_video_with_user(video_data, user_id, videos_of) ==
    LET listed == DictGet(videos_of, user_id)
    IN  [video_data |-> [video_data EXCEPT !.user_id = user_id],
         user_videos |-> DictPut(videos_of, user_id,
                                 IF \E i \in 1..Len(listed) : listed[i] = video_data.video_id
                                 THEN listed
                                 ELSE Append(listed, video_data.video_id))]

NoBody == [video_id |-> "", chunks_created |-> -1, visual_frames_indexed |-> -1]

\* the except clauses of process_video: a ValueError becomes a 400 whose
\* detail is str(e); every other exception, an HTTPException raised inside the
\* try block included, becomes the 500 of create_error_response, and str(e)
\* goes into its details only at log level DEBUG
error_response(exc, level) ==
    IF exc.kind = "ValueError"
    THEN [status |-> 400, error_type |-> "", message |-> exc.text,
          details |-> NoText, body |-> NoBody]
    ELSE [status |-> 500, error_type |-> "UnexpectedError",
          message |-> Text("An unexpected error occurred while processing the video",
                           -1, -1, -1),
          details |-> IF level = "DEBUG" THEN exc.text ELSE NoText,
          body |-> NoBody]

\* (a completed run answered like a failed one)
success_with_status_500(video_id, chunks, visual_index) ==
    [status |-> 500, error_type |-> "", message |-> NoText, details |-> NoText,
     body |-> [video_id |-> video_id, chunks_created |-> Len(chunks),
               visual_frames_indexed |-> Len(visual_index)]]

\* the dict process_video returns
success_response(video_id, chunks, visual_index) ==
    [status |-> 200, error_type |-> "", message |-> NoText, details |-> NoText,
     body |-> [video_id |-> video_id, chunks_created |-> Len(chunks),
               visual_frames_indexed |-> Len(visual_index)]]

PvCall(video_id, chunks_count, embeddings_count) ==
    [video_id |-> video_id, chunks_count |-> chunks_count,
     embeddings_count |-> embeddings_count]

\* What the two validators of a run were given and what they raised: the
\* shape of either provider answer ("dict", "list", "" when there was no
\* call), the position of the first empty chunk vector (-1 if none), the
\* number of frames
PvTrace(shape, empty_at, raised, frames_count, visual_shape, visual_raised) ==
    [shape |-> shape, empty_at |-> empty_at, raised |-> raised,
     frames_count |-> frames_count, visual_shape |-> visual_shape,
     visual_raised |-> visual_raised]

NoTrace == PvTrace("", -1, NoException, 0, "", NoException)

\* process_video(request, current_user): one run of the handler body
process_video(user_id, video_id, upstream) ==
    /\ IF upstream # "none"
       THEN /\ pv_call' = PvCall(video_id, -1, -1)
            /\ pv_trace' = NoTrace
            /\ pv_response' = error_response(
                   Raise(upstream, 0, Text("upstream failure", -1, -1, -1)), log_level)
            /\ UNCHANGED <<video_store, user_videos>>
       ELSE \E chunks_count \in 0..MaxChunks, result \in EmbedResults(MaxChunks + 1) :
              LET embeddings == as_list(result)
                  attached == attach_chunk_embeddings(chunks_count, embeddings)
              IN  /\ pv_call' = PvCall(video_id, chunks_count, Len(embeddings))
                  /\ IF attached.exc.kind # "none"
                     THEN /\ pv_response' = error_response(attached.exc, log_level)
                          /\ pv_trace' = PvTrace(result.kind,
                                                 first_empty(embeddings, Len(embeddings)) - 1,
                                                 attached.exc, 0, "", NoException)
                          /\ UNCHANGED <<video_store, user_videos>>
                     ELSE \E file_exists \in BOOLEAN, frames_count \in 0..MaxFrames,
                             described \in BOOLEAN,
                             visual_result \in EmbedResults(MaxFrames + 1) :
                            \* inputs the run never reads are not varied
                            /\ ~file_exists => frames_count = 0
                            /\ frames_count = 0 => described
                            /\ (frames_count = 0 \/ ~described) => visual_result = NoResult
                            /\ LET visual_index == visual_index_of(file_exists, frames_count,
                                                                   described, visual_result)
                                   video_data == [video_id |-> video_id, user_id |-> "",
                                                  chunks |-> attached.chunks,
                                                  visual_index |-> visual_index]
                                   assoc == associate_video_with_user(video_data, user_id,
                                                                      user_videos)
                                   built == build_visual_index(frames_count, described,
                                                               visual_result)
                               IN  /\ pv_trace' =
                                          PvTrace(result.kind, -1, NoException, frames_count,
                                                  IF frames_count > 0 /\ described
                                                  THEN visual_result.kind ELSE "",
                                                  built.exc)
                                   /\ user_videos' = assoc.user_videos
                                   /\ video_store' = DictPut(video_store, video_id,
                                                             assoc.video_data)
                                   /\ pv_response' = success_response(video_id,
                                                         attached.chunks, visual_index)
    /\ UNCHANGED log_level
    /\ UNCHANGED <<limiter_vars, cache_vars, chunk_vars, rank_vars, aux_vars>>

\* list_user_videos(current_user): the ids in user_videos of the user whose
\* video is in video_store, in the order they were associated
list_user_videos(user_id) ==
    SelectSeq(DictGet(user_videos, user_id), LAMBDA v : v \in DOMAIN video_store)

\* video_store = {}, user_videos = {}, log_level read from the environment
StoreInit(level) ==
    /\ video_store = <<>>
    /\ user_videos = <<>>
    /\ log_level = level
    /\ pv_call = PvCall("", -1, -1)
    /\ pv_trace = NoTrace
    /\ pv_response = [status |-> 0, error_type |-> "", message |-> NoText,
                      details |-> NoText, body |-> NoBody]

----------------------------------------------------------------------------
\* create_chunks(transcript, chunk_duration) (main.py)

\* Longest transcript and latest start time (whole seconds) of the inputs
MaxEntries == 3
MaxStart == 3

\* entry.get('duration', 3)
DefaultDuration == 3

Texts == {"a", "b"}

\* the durations an entry carries
Durations == {1, 2}

\* the thresholds passed as chunk_duration: negative, zero and positive
ChunkDurations == {-1, 0, 1, 2, 3}

\* A transcript entry {'text', 'start', 'duration'}; has_duration is FALSE
\* for an entry without the key 'duration'
Entries ==
    {[text |-> t, start |-> s, has_duration |-> TRUE, duration |-> d] :
        t \in Texts, s \in 0..MaxStart, d \in Durations}
    \cup {[text |-> t, start |-> s, has_duration |-> FALSE, duration |-> 0] :
        t \in Texts, s \in 0..MaxStart}

\* start times never decrease along the transcript
TimeOrdered(transcript) ==
    \A i \in 1..(Len(transcript) - 1) : transcript[i].start <= transcript[i + 1].start

Transcripts == {tr \in SeqsUpTo(Entries, MaxEntries) : TimeOrdered(tr)}

\* entry.get('duration', 3)
entry_duration(entry) ==
    IF entry.has_duration THEN entry.duration ELSE DefaultDuration

\* " ".join(current_chunk)
RECURSIVE join(_)
join(texts) ==
    IF Len(texts) = 0 THEN ""
    ELSE IF Len(texts) = 1 THEN texts[1]
    ELSE texts[1] \o " " \o join(Tail(texts))

\* chunk_start = 0
first_chunk_start(transcript) == 0

\* the for loop of create_chunks from entry i (counted from 1) on
RECURSIVE chunk_loop(_, _, _, _, _, _)
chunk_loop(transcript, chunk_duration, i, chunks, current_chunk, chunk_start) ==
    IF i > Len(transcript) THEN chunks
    ELSE LET entry == transcript[i]
             texts == Append(current_chunk, entry.text)
             last == (i = Len(transcript))
         IN  IF last \/ transcript[i + 1].start - chunk_start >= chunk_duration
             THEN chunk_loop(transcript, chunk_duration, i + 1,
                             Append(chunks,
                                    [text |-> join(texts), start |-> chunk_start,
                                     end |-> entry.start + entry_duration(entry)]),
                             <<>>,
                             IF ~last THEN transcript[i + 1].start ELSE chunk_start)
             ELSE chunk_loop(transcript, chunk_duration, i + 1, chunks, texts,
                             chunk_start)

\* create_chunks: it has no raise statement, so raised is always "none"
create_chunks(transcript, chunk_duration) ==
    [raised |-> "none",
     chunks |-> chunk_loop(transcript, chunk_duration, 1, <<>>, <<>>,
                           first_chunk_start(transcript))]

\* the call of create_chunks on the arguments at hand
call_create_chunks ==
    /\ ~chunk_call.called
    /\ chunk_call' = [chunk_call EXCEPT !.called = TRUE]
    /\ chunk_ret' = create_chunks(chunk_call.transcript, chunk_call.chunk_duration)
    /\ UNCHANGED <<limiter_vars, cache_vars, store_vars, rank_vars, aux_vars>>

\* the arguments at hand, before the call
ChunksInit(transcript, chunk_duration) ==
    /\ chunk_call = [called |-> FALSE, transcript |-> transcript,
                     chunk_duration |-> chunk_duration]
    /\ chunk_ret = [raised |-> "none", chunks |-> <<>>]

----------------------------------------------------------------------------
\* chat_with_video and visual_search: cosine ranking of the stored chunks and
\* frames against the query embedding (main.py)

\* np.argsort(similarities)[-5:] and scored[:8]
ChatK == 5
VisualK == 8

\* Float scores are kept in thousandths: 1.0 is 1000
Scale == 1000

\* Embeddings of stored chunks and frames: score 1, 0 and -1 against the
\* query <<1, 0>>, and one of zero norm
CandidateVectors == {<<1, 0>>, <<0, 1>>, <<-1, 0>>, <<0, 0>>}

\* What the provider does for a query: a vector, one of zero norm, an empty
\* one, or an exception
QueryAnswers ==
    {[ok |-> TRUE, v |-> q] : q \in {<<1, 0>>, <<0, 0>>, <<>>}}
        \cup {[ok |-> FALSE, v |-> <<>>]}

Questions == {"q"}

\* The order in which np.argsort's default kind leaves equal keys is not
\* promised; both directions are modelled
EqualKeyOrders == {"kept", "reversed"}

\* np.dot(a, b)
RECURSIVE dot(_, _)
dot(a, b) == IF Len(a) = 0 THEN 0 ELSE a[1] * b[1] + dot(Tail(a), Tail(b))

\* np.linalg.norm(v), exact for the vectors used here (their norms are whole)
norm(v) == CHOOSE n \in 0..dot(v, v) : n * n = dot(v, v)

\* (a pair without a defined cosine scored 0.0)
score_zero_when_undefined(query_embedding, embedding) ==
    IF Len(embedding) = 0 \/ norm(query_embedding) * norm(embedding) = 0
    THEN [valid |-> TRUE, value |-> 0]
    ELSE [valid |-> TRUE,
          value |-> (dot(query_embedding, embedding) * Scale)
                        \div (norm(query_embedding) * norm(embedding))]

\* the score both loops compute for one candidate: none when the candidate is
\* empty or norm_product == 0, else dot / norm_product
score(query_embedding, embedding) ==
    IF Len(embedding) = 0 \/ norm(query_embedding) * norm(embedding) = 0
    THEN [valid |-> FALSE, value |-> 0]
    ELSE [valid |-> TRUE,
          value |-> (dot(query_embedding, embedding) * Scale)
                        \div (norm(query_embedding) * norm(embedding))]

\* chat_with_video, the similarities list: -1 stands for a candidate without
\* a score
similarities_of(query_embedding, chunks) ==
    [i \in 1..Len(chunks) |->
        LET s == score(query_embedding, chunks[i].embedding)
        IN  IF s.valid THEN s.value ELSE -Scale]

\* the ascending sort of the positions 1..n by their keys, built by inserting
\* position n into the sorted positions before it
RECURSIVE sorted_positions(_, _, _)
sorted_positions(keys, n, equal_keys) ==
    IF n = 0 THEN <<>>
    ELSE LET rest == sorted_positions(keys, n - 1, equal_keys)
             ahead(i) == \/ keys[i] < keys[n]
                         \/ keys[i] = keys[n] /\ equal_keys = "kept"
         IN  SelectSeq(rest, ahead) \o <<n>>
                 \o SelectSeq(rest, LAMBDA i : ~ahead(i))

\* np.argsort(keys): the positions (from 1) in ascending order of their keys
argsort(keys, equal_keys) == sorted_positions(keys, Len(keys), equal_keys)

\* s[-k:]
last_k(s, k) == SubSeq(s, IF Len(s) > k THEN Len(s) - k + 1 ELSE 1, Len(s))

\* s[:k]
first_k(s, k) == SubSeq(s, 1, IF Len(s) > k THEN k ELSE Len(s))

\* s[::-1]
reversed(s) == [i \in 1..Len(s) |-> s[Len(s) + 1 - i]]

\* chat_with_video: top_indices, and the loop that skips negative scores
chat_top(similarities, equal_keys) ==
    LET top_indices == reversed(last_k(argsort(similarities, equal_keys), ChatK))
    IN  SelectSeq(top_indices, LAMBDA idx : similarities[idx] >= 0)

\* visual_search: the scored list, frames without a score left out
scored_frames(query_embedding, visual_index) ==
    LET all == [i \in 1..Len(visual_index) |->
                   [frame |-> i,
                    s |-> score(query_embedding, visual_index[i].embedding)]]
        kept == SelectSeq(all, LAMBDA x : x.s.valid)
    IN  [i \in 1..Len(kept) |-> [frame |-> kept[i].frame, similarity |-> kept[i].s.value]]

\* scored.sort(key=lambda x: x[0], reverse=True): descending, equal keys in
\* their order in the list
RECURSIVE sort_descending(_)
sort_descending(scored) ==
    IF Len(scored) = 0 THEN <<>>
    ELSE LET last == scored[Len(scored)]
             rest == sort_descending(SubSeq(scored, 1, Len(scored) - 1))
         IN  SelectSeq(rest, LAMBDA x : x.similarity >= last.similarity) \o <<last>>
                 \o SelectSeq(rest, LAMBDA x : x.similarity < last.similarity)

\* the confidence tiers: >= 0.80 high, >= 0.60 medium
confidence_of(similarity) ==
    IF similarity * 100 >= 80 * Scale THEN "high"
    ELSE IF similarity * 100 >= 60 * Scale THEN "medium"
    ELSE "low"

\* check_video_access(video_data, user): no owner, or the owner
access_allowed(video_data, user_id) ==
    video_data.user_id = "" \/ video_data.user_id = user_id

\* a ranking response: ids are the chunk or frame positions returned, labels
\* the similarity and confidence visual_search returns with each
RankResponse(status, source, ids, labels) ==
    [status |-> status, source |-> source, ids |-> ids, labels |-> labels]

RankCall(op, user_id, video_id, query) ==
    [op |-> op, user_id |-> user_id, video_id |-> video_id, query |-> query]

\* a ranking that reorders the stored list itself
chunks_ranked_in_place(chunks, top) == [i \in 1..Len(top) |-> chunks[top[i]]]

\* video_data['chunks'] after chat has ranked it: np.argsort works on the
\* list of similarities and returns positions, the chunks stay as stored
chunks_after_ranking(chunks, top) == chunks

\* chat_with_video(request, current_user)
chat_with_video(user_id, video_id, question) ==
    /\ IF video_id \notin DOMAIN video_store
       THEN /\ rank_call' = RankCall("chat", user_id, video_id, None)
            /\ rank_response' = RankResponse(404, "", <<>>, <<>>)
            /\ UNCHANGED <<cache_vars, video_store>>
       ELSE IF ~access_allowed(video_store[video_id], user_id)
       THEN /\ rank_call' = RankCall("chat", user_id, video_id, None)
            /\ rank_response' = RankResponse(403, "", <<>>, <<>>)
            /\ UNCHANGED <<cache_vars, video_store>>
       ELSE IF Len(video_store[video_id].chunks) = 0
       THEN /\ rank_call' = RankCall("chat", user_id, video_id, None)
            /\ rank_response' = RankResponse(400, "", <<>>, <<>>)
            /\ UNCHANGED <<cache_vars, video_store>>
       ELSE \E answer \in QueryAnswers :
              /\ cached_embedding_call(question, "retrieval_query", answer)
              /\ rank_call' = RankCall("chat", user_id, video_id, cache_ret'.value)
              /\ IF cache_ret'.raised # "none" \/ Len(cache_ret'.value.v) = 0
                 THEN /\ rank_response' = RankResponse(500, "", <<>>, <<>>)
                      /\ UNCHANGED video_store
                 ELSE \E equal_keys \in EqualKeyOrders, answered \in BOOLEAN :
                      \E top \in {chat_top(similarities_of(cache_ret'.value.v,
                                                           video_store[video_id].chunks),
                                            equal_keys)} :
                        LET chunks == video_store[video_id].chunks
                        IN  /\ video_store' =
                                  [video_store EXCEPT ![video_id].chunks =
                                      chunks_after_ranking(chunks, top)]
                            /\ rank_response' =
                              IF answered
                              THEN RankResponse(200, "chunks",
                                                [i \in 1..Len(top) |-> chunks[top[i]].text],
                                                <<>>)
                              ELSE RankResponse(500, "", <<>>, <<>>)
    /\ UNCHANGED <<user_videos, log_level, pv_call, pv_trace, pv_response>>
    /\ UNCHANGED <<limiter_vars, chunk_vars, aux_vars>>

\* visual_search(request, current_user); without a visual index the matches
\* are those the generation model infers from the transcript
visual_search(user_id, video_id, query) ==
    /\ IF video_id \notin DOMAIN video_store
       THEN /\ rank_call' = RankCall("visual_search", user_id, video_id, None)
            /\ rank_response' = RankResponse(404, "", <<>>, <<>>)
            /\ UNCHANGED cache_vars
       ELSE IF ~access_allowed(video_store[video_id], user_id)
       THEN /\ rank_call' = RankCall("visual_search", user_id, video_id, None)
            /\ rank_response' = RankResponse(403, "", <<>>, <<>>)
            /\ UNCHANGED cache_vars
       ELSE IF Len(video_store[video_id].visual_index) = 0
       THEN /\ rank_call' = RankCall("visual_search", user_id, video_id, None)
            /\ \E inferred \in {"error", "none", "one"} :
                 rank_response' =
                     IF inferred = "error" THEN RankResponse(500, "", <<>>, <<>>)
                     ELSE RankResponse(200, "transcript_inference",
                                       IF inferred = "one" THEN <<0>> ELSE <<>>, <<>>)
            /\ UNCHANGED cache_vars
       ELSE \E answer \in QueryAnswers :
              /\ cached_embedding_call(query, "retrieval_query", answer)
              /\ rank_call' = RankCall("visual_search", user_id, video_id,
                                       cache_ret'.value)
              /\ IF cache_ret'.raised # "none" \/ Len(cache_ret'.value.v) = 0
                 THEN rank_response' = RankResponse(500, "", <<>>, <<>>)
                 ELSE LET visual_index == video_store[video_id].visual_index
                          scored == scored_frames(cache_ret'.value.v, visual_index)
                          top == first_k(sort_descending(scored), VisualK)
                      IN  rank_response' =
                            RankResponse(200, "visual_index",
                                [i \in 1..Len(top) |-> visual_index[top[i].frame].timestamp],
                                [i \in 1..Len(top) |->
                                    [similarity |-> top[i].similarity,
                                     confidence |-> confidence_of(top[i].similarity)]])
    /\ UNCHANGED <<limiter_vars, store_vars, chunk_vars, aux_vars>>

\* before the first ranking request
RankInit ==
    /\ rank_call = RankCall("", "", "", None)
    /\ rank_response = RankResponse(0, "", <<>>, <<>>)

----------------------------------------------------------------------------
\* RateLimiter.check_rate_limit called from several threads at once.  The
\* method takes no lock; a thread can be preempted between two statements
\* and, inside the statement of lines 34-36 (and 37-39), between the
\* evaluation of the pruned list and its assignment.

Callers == {"t1", "t2", "t3"}

\* the client all threads act for
RaceClients == {"10.0.0.1"}

\* clock readings of the threaded model: around the minute boundary
RaceInstants == {0, 60}

\* limits of the limiter the threads share, and the calls they begin
RacePerMinute == 1
RacePerHour == 2
MaxRaceCalls == 3

\* a thread outside check_rate_limit
IdleCaller == [pc |-> "idle", client |-> "", at |-> 0, kept |-> <<>>]

CallerAt(p, pc, kept) == [rl_callers EXCEPT ![p].pc = pc, ![p].kept = kept]

\* lines 29-31: now = datetime.utcnow(), minute_ago, hour_ago
rl_enter(p, client_ip) ==
    /\ rl_callers[p].pc = "idle"
    /\ rl_entered < MaxRaceCalls
    /\ rl_entered' = rl_entered + 1
    /\ rl_callers' = [rl_callers EXCEPT ![p] =
           [pc |-> "clean_minute", client |-> client_ip, at |-> now, kept |-> <<>>]]
    /\ UNCHANGED <<limiter_vars, rl_stats>>
    /\ UNCHANGED <<cache_vars, store_vars, chunk_vars, rank_vars>>

\* lines 34-36 as one step: the minute window is replaced by its pruning
rl_clean_minute(p) ==
    LET c == rl_callers[p].client
    IN  /\ rl_callers[p].pc = "clean_minute"
        /\ minute_requests' =
              DictPut(minute_requests, c,
                      clean_old_requests(DictGet(minute_requests, c),
                                         rl_callers[p].at - MinuteWindow))
        /\ rl_callers' = CallerAt(p, "clean_hour", <<>>)
        /\ UNCHANGED <<requests_per_minute, requests_per_hour, hour_requests, now,
                       rl_result, admitted, rl_seen, rl_entered, rl_stats>>
        /\ UNCHANGED <<cache_vars, store_vars, chunk_vars, rank_vars>>

\* lines 34-36, right-hand side: the pruned list is computed from the list
\* the client has now; the read of the defaultdict creates the key
rl_read_minute(p) ==
    LET c == rl_callers[p].client
    IN  /\ rl_callers[p].pc = "clean_minute"
        /\ minute_requests' = DictPut(minute_requests, c, DictGet(minute_requests, c))
        /\ rl_callers' =
              CallerAt(p, "store_minute",
                       clean_old_requests(DictGet(minute_requests, c),
                                          rl_callers[p].at - MinuteWindow))
        /\ UNCHANGED <<requests_per_minute, requests_per_hour, hour_requests, now,
                       rl_result, admitted, rl_seen, rl_entered, rl_stats>>
        /\ UNCHANGED <<cache_vars, store_vars, chunk_vars, rank_vars>>

\* lines 34-36, assignment: self.minute_requests[client_ip] = <pruned list>
rl_store_minute(p) ==
    /\ rl_callers[p].pc = "store_minute"
    /\ minute_requests' =
          DictPut(minute_requests, rl_callers[p].client, rl_callers[p].kept)
    /\ rl_callers' = CallerAt(p, "clean_hour", <<>>)
    /\ UNCHANGED <<requests_per_minute, requests_per_hour, hour_requests, now,
                   rl_result, admitted, rl_seen, rl_entered, rl_stats>>
    /\ UNCHANGED <<cache_vars, store_vars, chunk_vars, rank_vars>>

\* lines 37-39 as one step
rl_clean_hour(p) ==
    LET c == rl_callers[p].client
    IN  /\ rl_callers[p].pc = "clean_hour"
        /\ hour_requests' =
              DictPut(hour_requests, c,
                      clean_old_requests(DictGet(hour_requests, c),
                                         rl_callers[p].at - HourWindow))
        /\ rl_callers' = CallerAt(p, "check_minute", <<>>)
        /\ UNCHANGED <<requests_per_minute, requests_per_hour, minute_requests, now,
                       rl_result, admitted, rl_seen, rl_entered, rl_stats>>
        /\ UNCHANGED <<cache_vars, store_vars, chunk_vars, rank_vars>>

\* lines 37-39, right-hand side
rl_read_hour(p) ==
    LET c == rl_callers[p].client
    IN  /\ rl_callers[p].pc = "clean_hour"
        /\ hour_requests' = DictPut(hour_requests, c, DictGet(hour_requests, c))
        /\ rl_callers' =
              CallerAt(p, "store_hour",
                       clean_old_requests(DictGet(hour_requests, c),
                                          rl_callers[p].at - HourWindow))
        /\ UNCHANGED <<requests_per_minute, requests_per_hour, minute_requests, now,
                       rl_result, admitted, rl_seen, rl_entered, rl_stats>>
        /\ UNCHANGED <<cache_vars, store_vars, chunk_vars, rank_vars>>

\* lines 37-39, assignment
rl_store_hour(p) ==
    /\ rl_callers[p].pc = "store_hour"
    /\ hour_requests' =
          DictPut(hour_requests, rl_callers[p].client, rl_callers[p].kept)
    /\ rl_callers' = CallerAt(p, "check_minute", <<>>)
    /\ UNCHANGED <<requests_per_minute, requests_per_hour, minute_requests, now,
                   rl_result, admitted, rl_seen, rl_entered, rl_stats>>
    /\ UNCHANGED <<cache_vars, store_vars, chunk_vars, rank_vars>>

\* the thread leaves check_rate_limit through a raise HTTPException(429)
rl_raise(p, scope, limit) ==
    /\ rl_callers' = [rl_callers EXCEPT ![p] = IdleCaller]
    /\ rl_result' = [client |-> rl_callers[p].client, at |-> rl_callers[p].at,
                     status |-> 429, scope |-> scope, limit |-> limit]
    /\ rl_seen' = rl_seen \cup {scope}

\* lines 42-46: the minute limit
rl_check_minute(p) ==
    /\ rl_callers[p].pc = "check_minute"
    /\ IF limit_reached(DictGet(minute_requests, rl_callers[p].client),
                        requests_per_minute)
       THEN rl_raise(p, "minute", requests_per_minute)
       ELSE /\ rl_callers' = CallerAt(p, "check_hour", <<>>)
            /\ UNCHANGED <<rl_result, rl_seen>>
    /\ UNCHANGED <<requests_per_minute, requests_per_hour, minute_requests,
                   hour_requests, now, admitted, rl_entered, rl_stats>>
    /\ UNCHANGED <<cache_vars, store_vars, chunk_vars, rank_vars>>

\* lines 49-53: the hour limit
rl_check_hour(p) ==
    /\ rl_callers[p].pc = "check_hour"
    /\ IF limit_reached(DictGet(hour_requests, rl_callers[p].client),
                        requests_per_hour)
       THEN rl_raise(p, "hour", requests_per_hour)
       ELSE /\ rl_callers' = CallerAt(p, "record_minute", <<>>)
            /\ UNCHANGED <<rl_result, rl_seen>>
    /\ UNCHANGED <<requests_per_minute, requests_per_hour, minute_requests,
                   hour_requests, now, admitted, rl_entered, rl_stats>>
    /\ UNCHANGED <<cache_vars, store_vars, chunk_vars, rank_vars>>

\* line 56: self.minute_requests[client_ip].append(now)
rl_record_minute(p) ==
    LET c == rl_callers[p].client
    IN  /\ rl_callers[p].pc = "record_minute"
        /\ minute_requests' =
              DictPut(minute_requests, c,
                      Append(DictGet(minute_requests, c), rl_callers[p].at))
        /\ rl_callers' = CallerAt(p, "record_hour", <<>>)
        /\ UNCHANGED <<requests_per_minute, requests_per_hour, hour_requests, now,
                       rl_result, admitted, rl_seen, rl_entered, rl_stats>>
        /\ UNCHANGED <<cache_vars, store_vars, chunk_vars, rank_vars>>

\* line 57: self.hour_requests[client_ip].append(now); the call returns
rl_record_hour(p) ==
    LET c == rl_callers[p].client
    IN  /\ rl_callers[p].pc = "record_hour"
        /\ hour_requests' =
              DictPut(hour_requests, c,
                      Append(DictGet(hour_requests, c), rl_callers[p].at))
        /\ admitted' = DictPut(admitted, c,
                               Append(DictGet(admitted, c), rl_callers[p].at))
        /\ rl_result' = [client |-> c, at |-> rl_callers[p].at,
                         status |-> 200, scope |-> "none", limit |-> 0]
        /\ rl_seen' = rl_seen \cup {"none"}
        /\ rl_callers' = [rl_callers EXCEPT ![p] = IdleCaller]
        /\ UNCHANGED <<requests_per_minute, requests_per_hour, minute_requests, now,
                       rl_entered, rl_stats>>
        /\ UNCHANGED <<cache_vars, store_vars, chunk_vars, rank_vars>>

\* the clock moves on while threads are inside check_rate_limit
RaceTick(t) ==
    /\ t > now
    /\ now' = t
    /\ UNCHANGED <<requests_per_minute, requests_per_hour, minute_requests,
                   hour_requests, rl_result, admitted, rl_seen>>
    /\ UNCHANGED <<cache_vars, store_vars, chunk_vars, rank_vars, aux_vars>>

----------------------------------------------------------------------------
\* Administrative surface of the limiter

NoStats == [client |-> "", requests_last_minute |-> 0, minute_limit |-> 0,
            requests_last_hour |-> 0, hour_limit |-> 0]

\* RateLimiter.get_stats(client_ip); self.minute_requests[client_ip] on a
\* defaultdict(list) stores an empty list under a key it does not hold
get_stats(client_ip) ==
    /\ minute_requests' =
          DictPut(minute_requests, client_ip, DictGet(minute_requests, client_ip))
    /\ hour_requests' =
          DictPut(hour_requests, client_ip, DictGet(hour_requests, client_ip))
    /\ rl_stats' =
          [client |-> client_ip,
           requests_last_minute |->
               CountNewer(DictGet(minute_requests, client_ip), now - MinuteWindow),
           minute_limit |-> requests_per_minute,
           requests_last_hour |->
               CountNewer(DictGet(hour_requests, client_ip), now - HourWindow),
           hour_limit |-> requests_per_hour]
    /\ UNCHANGED <<requests_per_minute, requests_per_hour, now, rl_result,
                   admitted, rl_seen, rl_callers, rl_entered>>
    /\ UNCHANGED <<cache_vars, store_vars, chunk_vars, rank_vars>>

\* no thread is inside check_rate_limit and get_stats has not been called
AuxInit ==
    /\ rl_callers = [p \in Callers |-> IdleCaller]
    /\ rl_entered = 0
    /\ rl_stats = NoStats

----------------------------------------------------------------------------
\* Specifications

\* A limiter with small limits, two clients, clock readings around both windows
InitLimiter ==
    /\ StoreInit("INFO")
    /\ ChunksInit(<<>>, 30)
    /\ RankInit
    /\ AuxInit
    /\ RateLimiterInit(SmallPerMinute, SmallPerHour)
    /\ EmbeddingCacheInit(MaxSize)

NextLimiter ==
    \/ \E c \in Clients : check_rate_limit(c)
    \/ \E t \in Instants : Tick(t)

SpecLimiter == InitLimiter /\ [][NextLimiter]_vars

\* The deployed limiter (20 per minute, 200 per hour) and one client
InitDeployed ==
    /\ StoreInit("INFO")
    /\ ChunksInit(<<>>, 30)
    /\ RankInit
    /\ AuxInit
    /\ RateLimiterInit(DeployedPerMinute, DeployedPerHour)
    /\ EmbeddingCacheInit(MaxSize)

NextDeployed ==
    \/ check_rate_limit("10.0.0.1")
    \/ \E t \in DeployedInstants : Tick(t)

SpecDeployed == InitDeployed /\ [][NextDeployed]_vars

\* The cache class on its own: every capacity from 0 to MaxSize, any calls
InitCache ==
    /\ StoreInit("INFO")
    /\ ChunksInit(<<>>, 30)
    /\ RankInit
    /\ AuxInit
    /\ RateLimiterInit(DeployedPerMinute, DeployedPerHour)
    /\ \E size \in 0..MaxSize : EmbeddingCacheInit(size)

NextCache ==
    \/ \E c \in Contents, t \in TaskTypes : get(c, t)
    \/ \E c \in Contents, t \in TaskTypes, e \in Embeddings : set(c, t, e)
    \/ stats
    \/ clear

SpecCache == InitCache /\ [][NextCache]_vars

\* The module-level cache as the handlers use it: a positive capacity (1000
\* in the deployment, 1..MaxSize here), filled by get_cached_embedding only
InitEmbed ==
    /\ StoreInit("INFO")
    /\ ChunksInit(<<>>, 30)
    /\ RankInit
    /\ AuxInit
    /\ RateLimiterInit(DeployedPerMinute, DeployedPerHour)
    /\ \E size \in 1..MaxSize : EmbeddingCacheInit(size)

NextEmbed ==
    \/ \E c \in Contents, t \in TaskTypes, a \in ProviderAnswers :
          get_cached_embedding(c, t, a)
    \/ stats
    \/ clear

SpecEmbed == InitEmbed /\ [][NextEmbed]_vars

\* The video pipeline: process_video runs of two users, any provider answers,
\* at either log level
Init ==
    /\ \E level \in LogLevels : StoreInit(level)
    /\ ChunksInit(<<>>, 30)
    /\ RankInit
    /\ AuxInit
    /\ RateLimiterInit(DeployedPerMinute, DeployedPerHour)
    /\ EmbeddingCacheInit(MaxSize)

Next ==
    \E u \in Users, v \in VideoIds, upstream \in Upstreams : process_video(u, v, upstream)

Spec == Init /\ [][Next]_vars

\* The chunker on its own: every time-ordered transcript of up to MaxEntries
\* entries and every threshold
InitChunks ==
    /\ StoreInit("INFO")
    /\ \E tr \in Transcripts, d \in ChunkDurations : ChunksInit(tr, d)
    /\ RankInit
    /\ AuxInit
    /\ RateLimiterInit(DeployedPerMinute, DeployedPerHour)
    /\ EmbeddingCacheInit(MaxSize)

NextChunks == call_create_chunks

SpecChunks == InitChunks /\ [][NextChunks]_vars

\* The second video processed: video vidA of user_a is committed (the state
\* after one successful run on two chunks and one frame), and any runs of
\* either user on vidB follow
OtherVideo == "vidB"

CommittedVideo ==
    associate_video_with_user(
        [video_id |-> "vidA", user_id |-> "",
         chunks |-> attach_chunk_embeddings(2, <<[kind |-> "dict", values |-> <<1, 0>>],
                                                 [kind |-> "dict", values |-> <<1, 0>>]>>).chunks,
         visual_index |-> build_visual_index(1, TRUE,
                              [kind |-> "dict", values |-> <<1, 0>>]).visual_index],
        "user_a", <<>>)

InitVideos ==
    /\ video_store = DictPut(<<>>, "vidA", CommittedVideo.video_data)
    /\ user_videos = CommittedVideo.user_videos
    /\ log_level = "INFO"
    /\ pv_call = PvCall("vidA", 2, 2)
    /\ pv_trace = PvTrace("list", -1, NoException, 1, "dict", NoException)
    /\ pv_response = success_response("vidA", CommittedVideo.video_data.chunks,
                                      CommittedVideo.video_data.visual_index)
    /\ ChunksInit(<<>>, 30)
    /\ RankInit
    /\ AuxInit
    /\ RateLimiterInit(DeployedPerMinute, DeployedPerHour)
    /\ EmbeddingCacheInit(MaxSize)

NextVideos ==
    \E u \in Users, upstream \in Upstreams : process_video(u, OtherVideo, upstream)

SpecVideos == InitVideos /\ [][NextVideos]_vars

\* The ranking handlers on a stored video whose chunks and frames carry the
\* same embeddings: any MaxHead vectors followed by up to MaxPad copies of
\* <<1, 0>>, so that more candidates than ChatK and VisualK occur
MaxHead == 1
MaxPad == 8

RankedUnits ==
    {head \o [i \in 1..pad |-> <<1, 0>>] :
        head \in SeqsUpTo(CandidateVectors, MaxHead), pad \in 0..MaxPad}

RankedVideo(units) ==
    [video_id |-> "vidA", user_id |-> "user_a",
     chunks |-> [i \in 1..Len(units) |-> [text |-> i, embedding |-> units[i]]],
     visual_index |-> [i \in 1..Len(units) |-> [timestamp |-> i, embedding |-> units[i]]]]

InitRank ==
    /\ \E units \in RankedUnits :
          /\ video_store = DictPut(<<>>, "vidA", RankedVideo(units))
          /\ pv_call = PvCall("vidA", Len(units), Len(units))
          /\ pv_trace = PvTrace("list", -1, NoException, Len(units), "list", NoException)
          /\ pv_response = success_response("vidA", RankedVideo(units).chunks,
                                            RankedVideo(units).visual_index)
    /\ user_videos = DictPut(<<>>, "user_a", <<"vidA">>)
    /\ log_level = "INFO"
    /\ ChunksInit(<<>>, 30)
    /\ RankInit
    /\ AuxInit
    /\ RateLimiterInit(DeployedPerMinute, DeployedPerHour)
    /\ EmbeddingCacheInit(MaxSize)

NextRank ==
    \/ \E u \in Users, v \in {"vidA", OtherVideo}, q \in Questions :
          chat_with_video(u, v, q)
    \/ \E u \in Users, v \in {"vidA", OtherVideo}, q \in Questions :
          visual_search(u, v, q)

SpecRank == InitRank /\ [][NextRank]_vars


\* Three threads in check_rate_limit for one client, every statement one step
InitRace ==
    /\ RateLimiterInit(RacePerMinute, RacePerHour)
    /\ EmbeddingCacheInit(MaxSize)
    /\ StoreInit("INFO")
    /\ ChunksInit(<<>>, 30)
    /\ RankInit
    /\ AuxInit

NextRace ==
    \/ \E p \in Callers, c \in RaceClients : rl_enter(p, c)
    \/ \E p \in Callers : rl_clean_minute(p)
    \/ \E p \in Callers : rl_clean_hour(p)
    \/ \E p \in Callers : rl_check_minute(p)
    \/ \E p \in Callers : rl_check_hour(p)
    \/ \E p \in Callers : rl_record_minute(p)
    \/ \E p \in Callers : rl_record_hour(p)
    \/ \E t \in RaceInstants : RaceTick(t)

SpecRace == InitRace /\ [][NextRace]_vars

\* The same threads, preempted also inside the two pruning statements
InitThreads == InitRace

NextThreads ==
    \/ \E p \in Callers, c \in RaceClients : rl_enter(p, c)
    \/ \E p \in Callers : rl_read_minute(p)
    \/ \E p \in Callers : rl_store_minute(p)
    \/ \E p \in Callers : rl_read_hour(p)
    \/ \E p \in Callers : rl_store_hour(p)
    \/ \E p \in Callers : rl_check_minute(p)
    \/ \E p \in Callers : rl_check_hour(p)
    \/ \E p \in Callers : rl_record_minute(p)
    \/ \E p \in Callers : rl_record_hour(p)
    \/ \E t \in RaceInstants : RaceTick(t)

SpecThreads == InitThreads /\ [][NextThreads]_vars

\* The administrative surface next to the operations it reports on: the
\* small limiter with two clients and the cache with one key
AdminInstants == {0, 60}

InitAdmin ==
    /\ StoreInit("INFO")
    /\ ChunksInit(<<>>, 30)
    /\ RankInit
    /\ AuxInit
    /\ RateLimiterInit(SmallPerMinute, SmallPerHour)
    /\ EmbeddingCacheInit(MaxSize)

NextAdmin ==
    \/ \E c \in Clients : check_rate_limit(c)
    \/ \E t \in AdminInstants : Tick(t)
    \/ \E c \in Clients : get_stats(c)
    \/ \E e \in Embeddings : set("x", "retrieval_query", e)
    \/ get("x", "retrieval_query")
    \/ stats

SpecAdmin == InitAdmin /\ [][NextAdmin]_vars

----------------------------------------------------------------------------
\* Claims about the rate limiter

\* number of recorded timestamps of client c in the window (t - length, t]
AdmittedIn(c, t, length) ==
    Cardinality({i \in 1..Len(DictGet(admitted, c)) :
                    /\ DictGet(admitted, c)[i] > t - length
                    /\ DictGet(admitted, c)[i] <= t})

DeployedClient == "10.0.0.1"

\* C1: with the deployed limit of 20 per minute and calls made one after
\* another by one client, a check that finds 19 admitted calls in the trailing
\* 60 seconds is allowed (the 20th), a check that finds 20 fails with status
\* 429 and scope "minute" (the 21st), and a check made more than 60 seconds
\* after the first of at most 20 admitted calls is allowed again.
C1_RateLimiterBoundary ==
    [][check_rate_limit(DeployedClient) =>
        LET adm == DictGet(admitted, DeployedClient)
            in_minute == AdmittedIn(DeployedClient, now, MinuteWindow)
            in_hour == AdmittedIn(DeployedClient, now, HourWindow)
        IN  /\ requests_per_minute = 20
            /\ (in_minute = 19 /\ in_hour < requests_per_hour)
                  => rl_result'.status = 200
            /\ in_minute = 20
                  => (rl_result'.status = 429 /\ rl_result'.scope = "minute")
            /\ (Len(adm) \in 1..20 /\ now > adm[1] + MinuteWindow)
                  => rl_result'.status = 200
    ]_vars

\* C1 witness: 20 calls were admitted within 60 seconds, a further call was
\* rejected for the minute limit, and the 21st call was admitted once more
\* than 60 seconds had passed since the first one.
C1_Witness ==
    LET adm == DictGet(admitted, DeployedClient)
    IN  /\ Len(adm) = 21
        /\ adm[20] < adm[1] + MinuteWindow
        /\ adm[21] > adm[1] + MinuteWindow
        /\ "minute" \in rl_seen
        /\ rl_result.status = 200
        /\ rl_result.at = now

\* C2: for every client and every instant t up to now, the admitted calls
\* with timestamps in (t-60, t] never exceed the per-minute limit and those
\* in (t-3600, t] never exceed the per-hour limit.  (The count of a window
\* is largest when the window ends on a recorded timestamp, and every
\* recorded timestamp is one of the clock readings.)
C2_WindowCountsBounded ==
    \A c \in Clients : \A t \in Instants \cup DeployedInstants :
        t <= now =>
            /\ AdmittedIn(c, t, MinuteWindow) <= requests_per_minute
            /\ AdmittedIn(c, t, HourWindow) <= requests_per_hour

\* C2 witness: both limits have rejected calls, and a client that was admitted
\* again after its hour window slid is at the hour limit once more.
C2_Witness ==
    /\ {"minute", "hour"} \subseteq rl_seen
    /\ \E c \in Clients :
          /\ Len(DictGet(admitted, c)) > requests_per_hour
          /\ AdmittedIn(c, now, HourWindow) = requests_per_hour
          /\ AdmittedIn(c, now, MinuteWindow) = requests_per_minute

----------------------------------------------------------------------------
\* Claims about the embedding cache

\* the keys the cache holds
HeldKeys(od) == {od[i].key : i \in 1..Len(od)}

\* the held key whose last touch (insert by set, or get hit) is the oldest
LeastRecentlyTouched ==
    Head(SelectSeq(recency, LAMBDA k : k \in HeldKeys(cache)))

C6_SizeAtMostCapacity ==
    /\ Len(cache) <= maxsize
    /\ cache_ret.op = "stats" => cache_ret.value.v.size <= maxsize

\* C6 witness: stats() reports a full cache after an eviction has happened.
C6_Witness ==
    /\ cache_ret.op = "stats"
    /\ maxsize >= 1
    /\ cache_ret.value.v.size = maxsize
    /\ Len(recency) > Len(cache)

\* C7: on a cache of capacity >= 2, a set(c, t1, v1) followed by a
\* set(c, t2, v2) with t1 # t2 leaves both entries retrievable: get(c, t1)
\* returns v1 and get(c, t2) returns v2.
C7_TaskTypesAreDistinctSlots ==
    [][\A c \in Contents, t2 \in TaskTypes, v2 \in Embeddings :
        (/\ set(c, t2, v2)
         /\ maxsize >= 2
         /\ cache_ret.op = "set"
         /\ cache_ret.raised = "none"
         /\ cache_ret.content = c
         /\ cache_ret.task_type # t2)
        => /\ lookup(cache', hash_content(c, cache_ret.task_type)) = cache_ret.value
           /\ lookup(cache', hash_content(c, t2)) = Some(v2)
    ]_vars

\* C7 witness: after two sets the same content is held under both task types
\* with different vectors.
C7_Witness ==
    /\ cache_ret.op = "set"
    /\ LET q == lookup(cache, hash_content(cache_ret.content, "retrieval_query"))
           d == lookup(cache, hash_content(cache_ret.content, "retrieval_document"))
       IN  q.some /\ d.some /\ q.v # d.v

\* C8: every get adds one to exactly one counter (hits when the key is held,
\* and then the stored vector is returned; misses when it is not, and then
\* None is returned), set and stats leave both counters alone, clear resets
\* hits, misses and the size to 0, and hits + misses is the number of get
\* calls since construction or the last clear.
C8_CounterAccounting ==
    [][/\ hits + misses = gets
       /\ hits' + misses' = gets'
       /\ \A c \in Contents, t \in TaskTypes :
            get(c, t) =>
              LET stored == lookup(cache, hash_content(c, t))
              IN  IF stored.some
                  THEN hits' = hits + 1 /\ misses' = misses /\ cache_ret'.value = stored
                  ELSE hits' = hits /\ misses' = misses + 1 /\ cache_ret'.value = None
       /\ \A c \in Contents, t \in TaskTypes, e \in Embeddings :
            set(c, t, e) => (hits' = hits /\ misses' = misses)
       /\ stats => (hits' = hits /\ misses' = misses)
       /\ clear => (hits' = 0 /\ misses' = 0 /\ Len(cache') = 0)
    ]_vars

\* C8 witness: a miss, a set, and then a hit on the key that was set.
C8_Witness ==
    /\ cache_ret.op = "get"
    /\ cache_ret.value.some
    /\ Len(cache) = 1
    /\ hits = 1
    /\ misses = 1
    /\ gets = 2

\* C9: no call on the cache fails, whatever capacity it was constructed
\* with (0 and 1 included): every get, set, stats and clear returns normally.
C9_NoErrorConditions == cache_ret.raised = "none"

\* C29: a set for a (content, task type) key the cache already holds only
\* replaces that key's vector: no entry is evicted, the retrievable keys and
\* the size are unchanged and the key is not stored twice, also when the
\* cache is at capacity.
C29_SetOfHeldKeyOnlyReplaces ==
    [][\A c \in Contents, t \in TaskTypes, e \in Embeddings :
          (has_key(cache, hash_content(c, t)) /\ set(c, t, e)) =>
              /\ HeldKeys(cache') = HeldKeys(cache)
              /\ Len(cache') = Len(cache)
              /\ Cardinality(HeldKeys(cache')) = Len(cache')
              /\ lookup(cache', hash_content(c, t)) = Some(e)]_vars

\* C10: get_cached_embedding calls the provider only on a miss and then stores
\* what it returned; while the entry of (content, task type) is held (not
\* evicted, not cleared), a call returns the vector the earlier call returned,
\* makes no provider call and adds one to hits.
C10_ProviderCalledOnlyOnMiss ==
    [][\A c \in Contents, t \in TaskTypes, a \in ProviderAnswers :
        get_cached_embedding(c, t, a) =>
          LET key == hash_content(c, t)
          IN  IF has_key(cache, key)
              THEN /\ key \in DOMAIN served
                   /\ cache_ret'.raised = "none"
                   /\ cache_ret'.value = Some(served[key])
                   /\ provider_calls' = provider_calls
                   /\ hits' = hits + 1
                   /\ lookup(cache', key) = lookup(cache, key)
              ELSE /\ provider_calls' = provider_calls + 1
                   /\ hits' = hits
                   /\ a.ok => /\ cache_ret'.value = Some(a.v)
                              /\ lookup(cache', key) = Some(a.v)
    ]_vars

\* C10 witness: after one provider call the same query was answered from
\* the cache.
C10_Witness ==
    /\ cache_ret.op = "get_cached_embedding"
    /\ cache_ret.value.some
    /\ provider_calls = 1
    /\ hits = 1
    /\ misses = 1

----------------------------------------------------------------------------
\* Claims about process_video

\* the last run's embedding call answered with a number of vectors that is
\* not the number of chunks
MismatchRun ==
    /\ pv_call.embeddings_count >= 0
    /\ pv_call.embeddings_count # pv_call.chunks_count

\* the text is the count-mismatch message with the counts of the last run
CarriesBothCounts(text) ==
    /\ text.wording = "Embedding count mismatch"
    /\ text.expected = pv_call.chunks_count
    /\ text.received = pv_call.embeddings_count

\* C3: when the batch embedding call of a run with N chunks returns M # N
\* vectors, process_video answers its caller with status 500 and a detail
\* that holds the count-mismatch message with both counts N and M, and the
\* run leaves video_store as it was.
C3_MismatchReachesCaller ==
    [][MismatchRun' =>
          /\ pv_response'.status = 500
          /\ \/ CarriesBothCounts(pv_response.message)'
             \/ CarriesBothCounts(pv_response.details)'
          /\ video_store' = video_store]_vars

\* C4: every chunk and every visual frame of every video in video_store has
\* a non-empty embedding vector, whatever runs, successful or failed, have
\* happened.
C4_PublishedUnitsAreEmbedded ==
    \A v \in DOMAIN video_store :
        /\ \A i \in 1..Len(video_store[v].chunks) :
              Len(video_store[v].chunks[i].embedding) > 0
        /\ \A i \in 1..Len(video_store[v].visual_index) :
              Len(video_store[v].visual_index[i].embedding) > 0

\* a video with two chunks and a frame is stored, and the run after it was
\* rejected for an empty vector
C4_Witness ==
    /\ \E v \in DOMAIN video_store :
          /\ Len(video_store[v].chunks) >= 2
          /\ Len(video_store[v].visual_index) >= 1
    /\ pv_response.status = 400
    /\ pv_response.message.wording = "Empty embedding returned for chunk"

\* the last run's embedding call answered with as many vectors as there are
\* chunks, one of them empty
EmptyVectorRun ==
    /\ pv_call.embeddings_count = pv_call.chunks_count
    /\ pv_trace.empty_at >= 0

\* the text is the empty-vector message naming the first empty position
NamesEmptyPosition(text) ==
    /\ text.wording = "Empty embedding returned for chunk"
    /\ text.index = pv_trace.empty_at

\* C14: when the embedding call returns as many vectors as there are chunks
\* and the vector at position i is empty, process_video answers with status
\* 500 and an error that names position i, and the video is not stored.
C14_EmptyVectorIsServerFailure ==
    [][EmptyVectorRun' =>
          /\ pv_response'.status = 500
          /\ \/ NamesEmptyPosition(pv_response.message)'
             \/ NamesEmptyPosition(pv_response.details)'
          /\ video_store' = video_store]_vars

\* the validator raised the count mismatch "expected n, received 1"
MismatchWithOne(exc, n) ==
    /\ exc.kind \in {"HTTPException", "ValueError"}
    /\ exc.text.wording \in {"Embedding count mismatch", "Visual embedding count mismatch"}
    /\ exc.text.expected = n
    /\ exc.text.received = 1

C16_VisualIntegrityErrorFailsRun ==
    [][pv_trace'.visual_raised.kind = "ValueError" =>
          /\ pv_response'.status # 200
          /\ video_store' = video_store]_vars

\* C17: a process_video run that fails (count mismatch, empty vector, or an
\* error of a provider) leaves video_store and user_videos exactly as they
\* were: what is committed for another video, and what was committed earlier
\* for the same video, is unchanged.
C17_FailedRunChangesNothing ==
    [][pv_response'.status # 200 =>
          /\ video_store' = video_store
          /\ user_videos' = user_videos]_vars

\* C17 witness: with vidA and vidB both committed, a further run on vidB has
\* failed.
C17_Witness ==
    /\ {"vidA", OtherVideo} \subseteq DOMAIN video_store
    /\ pv_call.video_id = OtherVideo
    /\ pv_response.status # 200
    /\ pv_call.embeddings_count >= 0

----------------------------------------------------------------------------
\* Claims about create_chunks

\* C11: for a non-empty time-ordered transcript and a positive threshold, the
\* [start, end) ranges of the returned chunks, in order, cover the span from
\* the first entry's start to the last entry's start + duration without gap
\* or overlap: the first chunk starts at the first entry's start, each
\* chunk ends where the next one starts, the last chunk ends with the last
\* entry.
C11_ChunksAreContiguous ==
    (/\ chunk_call.called
     /\ Len(chunk_call.transcript) >= 1
     /\ chunk_call.chunk_duration > 0)
    => LET tr == chunk_call.transcript
           chunks == chunk_ret.chunks
       IN  /\ chunk_ret.raised = "none"
           /\ Len(chunks) >= 1
           /\ chunks[1].start = tr[1].start
           /\ \A i \in 1..(Len(chunks) - 1) : chunks[i].end = chunks[i + 1].start
           /\ chunks[Len(chunks)].end =
                  tr[Len(tr)].start + entry_duration(tr[Len(tr)])

\* C12: create_chunks of an empty transcript returns no chunk, and
\* create_chunks of a single entry returns exactly one chunk with that
\* entry's text, its start, and its start + duration as end (duration 3
\* when the entry has none), for every start >= 0.
C12_ChunkerEdgeCases ==
    chunk_call.called =>
        LET tr == chunk_call.transcript
        IN  /\ Len(tr) = 0 => chunk_ret.chunks = <<>>
            /\ Len(tr) = 1 =>
                  chunk_ret.chunks =
                      <<[text |-> tr[1].text, start |-> tr[1].start,
                         end |-> tr[1].start + entry_duration(tr[1])]>>

\* C13: a threshold chunk_duration <= 0 is rejected: create_chunks returns
\* no chunk sequence for it.
C13_NonPositiveThresholdRejected ==
    (chunk_call.called /\ chunk_call.chunk_duration <= 0)
        => chunk_ret.raised # "none"

\* the chunks the closing rule of C28 gives from entry i on, when the
\* current chunk began with entry first: [first entry, closing entry] pairs
RECURSIVE ClosedBy(_, _, _, _)
ClosedBy(tr, max, i, first) ==
    IF i > Len(tr) THEN <<>>
    ELSE IF i = Len(tr) \/ tr[i + 1].start >= tr[first].start + max
    THEN <<[first |-> first, last |-> i]>> \o ClosedBy(tr, max, i + 1, i + 1)
    ELSE ClosedBy(tr, max, i + 1, first)

\* C28: closing rule. With max > 0 and start_of_chunk the start of the
\* current chunk's first entry, entry i closes the current chunk if and
\* only if it is the last entry or entries[i+1].start >= start_of_chunk +
\* max; the closed chunk ends at entries[i].start + duration (3 if
\* omitted) and the next chunk starts at entries[i+1].start.
C28_ClosingRule ==
    (chunk_call.called /\ chunk_call.chunk_duration > 0) =>
        LET tr == chunk_call.transcript
            chunks == chunk_ret.chunks
            closed == ClosedBy(tr, chunk_call.chunk_duration, 1, 1)
        IN  /\ Len(chunks) = Len(closed)
            /\ \A k \in 1..Len(closed) :
                  /\ chunks[k].end =
                        tr[closed[k].last].start + entry_duration(tr[closed[k].last])
                  /\ k > 1 => chunks[k].start = tr[closed[k].first].start

----------------------------------------------------------------------------
\* Claims about the ranking of chat_with_video and visual_search

\* the last request was answered with candidates ranked against its query
Ranked ==
    /\ rank_response.status = 200
    /\ rank_response.source \in {"chunks", "visual_index"}

\* the candidates of the last request, the number it returns at most, and
\* the score of the candidate at a position
RankCandidates ==
    IF rank_call.op = "chat" THEN video_store[rank_call.video_id].chunks
    ELSE video_store[rank_call.video_id].visual_index

RankK == IF rank_call.op = "chat" THEN ChatK ELSE VisualK

RankScore(id) == score(rank_call.query.v, RankCandidates[id].embedding).value

\* a vector with a cosine: not empty, norm not zero
HasCosine(v) == Len(v) > 0 /\ norm(v) # 0

\* C18: the candidates returned by chat and by visual_search are in
\* descending order of their cosine score, and candidates of equal score
\* are in candidate order, the lower position first.
C18_DescendingAndTiesInOrder ==
    Ranked =>
        \A i \in 1..Len(rank_response.ids), j \in 1..Len(rank_response.ids) :
            i < j =>
                \/ RankScore(rank_response.ids[i]) > RankScore(rank_response.ids[j])
                \/ /\ RankScore(rank_response.ids[i]) = RankScore(rank_response.ids[j])
                   /\ rank_response.ids[i] < rank_response.ids[j]

\* C19: for a query vector with a cosine, the number of results is
\* min(k, number of candidates with a cosine), whatever the sign of their
\* scores; k is 5 for chat and 8 for visual_search.
C19_OutputSize ==
    (Ranked /\ HasCosine(rank_call.query.v)) =>
        LET valid == Cardinality({i \in 1..Len(RankCandidates) :
                                     HasCosine(RankCandidates[i].embedding)})
        IN  Len(rank_response.ids) = IF valid < RankK THEN valid ELSE RankK

\* C20: a candidate whose vector is empty or has zero norm is never among
\* the results of chat or visual_search, and a query vector of zero norm
\* gives no results.
C20_NoUnscorableResult ==
    Ranked =>
        /\ \A i \in 1..Len(rank_response.ids) :
              HasCosine(RankCandidates[rank_response.ids[i]].embedding)
        /\ ~HasCosine(rank_call.query.v) => rank_response.ids = <<>>

\* C20 witness: chat has ranked a video whose first chunk has a zero-norm
\* vector and has returned other chunks.
C20_Witness ==
    /\ Ranked
    /\ rank_call.op = "chat"
    /\ Len(RankCandidates) >= 2
    /\ RankCandidates[1].embedding = <<0, 0>>
    /\ Len(rank_response.ids) >= 1

\* C26: a rejected check records nothing. When check fails with scope
\* "minute" or "hour" no timestamp is added to either window of the client,
\* the only change is the removal of its stale timestamps; so whether a
\* call is admitted depends on the admitted calls alone, never on how many
\* calls were rejected before it.
C26_RejectedCheckRecordsNothing ==
    [][\A c \in Clients :
          check_rate_limit(c) =>
              /\ rl_result'.status = 429 =>
                    /\ rl_result'.scope \in {"minute", "hour"}
                    /\ minute_requests'[c] =
                          SelectSeq(DictGet(minute_requests, c),
                                    LAMBDA t : t > now - MinuteWindow)
                    /\ hour_requests'[c] =
                          SelectSeq(DictGet(hour_requests, c),
                                    LAMBDA t : t > now - HourWindow)
                    /\ \A d \in Clients \ {c} :
                          /\ DictGet(minute_requests', d) = DictGet(minute_requests, d)
                          /\ DictGet(hour_requests', d) = DictGet(hour_requests, d)
              /\ rl_result'.status = 200 <=>
                    /\ AdmittedIn(c, now, MinuteWindow) < requests_per_minute
                    /\ AdmittedIn(c, now, HourWindow) < requests_per_hour]_vars

\* C26 witness: a call rejected for the hour limit has removed the stale
\* timestamp from the client's minute window and has added nothing.
C26_Witness ==
    /\ rl_result.status = 429
    /\ rl_result.scope = "hour"
    /\ Len(DictGet(admitted, rl_result.client)) = requests_per_hour
    /\ DictGet(minute_requests, rl_result.client) = <<>>
    /\ Len(DictGet(hour_requests, rl_result.client)) = requests_per_hour

\* s is a suffix of the sequence all
IsSuffix(s, all) ==
    /\ Len(s) <= Len(all)
    /\ s = SubSeq(all, Len(all) - Len(s) + 1, Len(all))

\* the windows of client c hold only timestamps strictly newer than the
\* clock reading minus the window length
WindowsFresh(c) ==
    /\ \A i \in 1..Len(DictGet(minute_requests, c)) :
          DictGet(minute_requests, c)[i] > now - MinuteWindow
    /\ \A i \in 1..Len(DictGet(hour_requests, c)) :
          DictGet(hour_requests, c)[i] > now - HourWindow

\* the windows of client c are suffixes, in request order, of its admitted
\* requests
WindowsAreSuffixes(c) ==
    /\ IsSuffix(DictGet(minute_requests, c), DictGet(admitted, c))
    /\ IsSuffix(DictGet(hour_requests, c), DictGet(admitted, c))

\* C27 as stated: in every reachable state, after any check calls and any
\* advance of the clock, every client's minute window holds only timestamps
\* strictly newer than now - 60 s and its hour window only timestamps
\* strictly newer than now - 3600 s, each a suffix, in request order, of the
\* client's admitted requests.
C27_WindowsAlwaysFresh ==
    \A c \in Clients : WindowsFresh(c) /\ WindowsAreSuffixes(c)

\* C27 as amended: the windows are pruned by the client's own check calls
\* only. Right after a check call of a client its windows hold only
\* timestamps strictly newer than now - 60 s and now - 3600 s; in every
\* reachable state each window is a suffix, in request order, of the
\* client's admitted requests and holds every admitted request that is
\* still strictly newer than now minus the window length.
C27_WindowsFreshAfterCheck ==
    [][/\ \A c \in Clients : check_rate_limit(c) => WindowsFresh(c)'
       /\ \A c \in Clients :
             /\ WindowsAreSuffixes(c)'
             /\ Len(DictGet(minute_requests', c)) >= AdmittedIn(c, now', MinuteWindow)
             /\ Len(DictGet(hour_requests', c)) >= AdmittedIn(c, now', HourWindow)]_vars

\* C27 witness: a check call has just pruned a stale timestamp from the
\* client's minute window, which still holds a newer one, while the other
\* client's window holds a timestamp that has become stale.
C27_Witness ==
    /\ rl_result.at = now
    /\ now >= MinuteWindow
    /\ Len(DictGet(minute_requests, rl_result.client)) >= 1
    /\ Len(DictGet(minute_requests, rl_result.client))
          < Len(DictGet(admitted, rl_result.client))
    /\ WindowsFresh(rl_result.client)
    /\ \E d \in Clients \ {rl_result.client} : ~WindowsFresh(d)

----------------------------------------------------------------------------
\* Claims about concurrent callers of the rate limiter

\* number of admitted calls of client c stamped in the 60 seconds from t on
AdmittedFrom(c, t) ==
    Cardinality({i \in 1..Len(DictGet(admitted, c)) :
                    /\ DictGet(admitted, c)[i] >= t
                    /\ DictGet(admitted, c)[i] < t + MinuteWindow})

\* C21: when check calls of one client interleave at the granularity of
\* their prune, limit-test and append steps, at most one request above the
\* per-minute limit is admitted within any 60-second window.
C21_AtMostOneAboveLimit ==
    \A c \in RaceClients :
        \A i \in 1..Len(DictGet(admitted, c)) :
            AdmittedFrom(c, DictGet(admitted, c)[i]) <= requests_per_minute + 1

\* C22: no lost update. Under any interleaving of check calls of one client,
\* the timestamp of every admitted call is in the client's minute window and
\* hour window until it ages out of that window.
C22_NoLostUpdate ==
    \A c \in RaceClients :
        /\ CountNewer(DictGet(minute_requests, c), now - MinuteWindow)
              >= CountNewer(DictGet(admitted, c), now - MinuteWindow)
        /\ CountNewer(DictGet(hour_requests, c), now - HourWindow)
              >= CountNewer(DictGet(admitted, c), now - HourWindow)

----------------------------------------------------------------------------
\* Claims about the administrative surface

\* C23: introspection is read-only. get_stats(client) leaves the windows and
\* the set of known clients unchanged, for known and unknown clients, and
\* returns the number of admitted calls of the client in the trailing 60 s
\* and 3600 s; EmbeddingCache.stats() leaves the entries, their order and
\* the hit and miss counters unchanged.
C23_IntrospectionIsReadOnly ==
    [][/\ \A c \in Clients :
             get_stats(c) =>
                 /\ minute_requests' = minute_requests
                 /\ hour_requests' = hour_requests
                 /\ rl_stats'.requests_last_minute = AdmittedIn(c, now, MinuteWindow)
                 /\ rl_stats'.requests_last_hour = AdmittedIn(c, now, HourWindow)
       /\ stats => /\ cache' = cache
                   /\ hits' = hits
                   /\ misses' = misses
                   /\ recency' = recency]_vars

----------------------------------------------------------------------------
\* Claims about the stored retrieval data

\* C24: queries only read. No chat or visual_search call, successful or
\* failed, changes video_store or user_videos: the chunks and frames of a
\* stored video are the same before and after every query.
C24_QueriesOnlyRead ==
    [][video_store' = video_store /\ user_videos' = user_videos]_vars

\* C24 witness: chat has answered from a stored video with several chunks
\* and has ranked a later chunk before the first one.
C24_Witness ==
    /\ Ranked
    /\ rank_call.op = "chat"
    /\ Len(video_store[rank_call.video_id].chunks) >= 2
    /\ Len(rank_response.ids) >= 1
    /\ rank_response.ids[1] # 1

\* C25: processing a stored video again returns the cached result. A
\* process_video call by the owner of an already stored video succeeds with
\* the response of the run that stored it and leaves the stored record as
\* that run committed it.
C25_SecondRunReturnsCached ==
    [][\A u \in Users, v \in VideoIds :
          (/\ v \in DOMAIN video_store
           /\ video_store[v].user_id = u
           /\ \E upstream \in Upstreams : process_video(u, v, upstream))
          => /\ pv_response' = success_response(v, video_store[v].chunks,
                                                video_store[v].visual_index)
             /\ video_store'[v] = video_store[v]]_vars

\* C30: ownership consistency. After any successful process_video calls by
\* any users, two users processing the same video id included, every video
\* id list_user_videos returns for user u is a stored video whose owner is
\* u, one check_video_access admits u to; a user who processed a video keeps
\* access to it whatever other users do afterwards.
C30_ListedVideosAreOwned ==
    \A u \in Users :
        \A i \in 1..Len(list_user_videos(u)) :
            LET video_data == video_store[list_user_videos(u)[i]]
            IN  /\ video_data.user_id = u
                /\ access_allowed(video_data, u)

====
